---- MODULE Spec2Model ----
(***************************************************************************)
(* IPLookupPlugin (src/main.py): the query command, the two-provider       *)
(* lookup _query_ip_info, the status command, terminate and _is_valid_ip.  *)
(*                                                                         *)
(* Text is a sequence of characters, each character a one-element string   *)
(* of the alphabet below, so that split(), the validation regex and        *)
(* float() are computed on the characters.  The two characters of the     *)
(* command word of line 110 are written "cha" and "xun"; the fixed reply  *)
(* and log texts are named by ASCII tags, the source text in the comment.  *)
(*                                                                         *)
(* A coroutine is cut where it can be suspended: at the yield of the       *)
(* progress reply (line 127), at each session.get (lines 55 and 73,        *)
(* together with the response.json() that follows it) and at the await of  *)
(* terminate (line 47).  The provider payloads carry fields of the         *)
(* documented types, any of them absent; a body may also be no JSON at     *)
(* all.  ip_group (lines 100-108) only replies with the help text and is   *)
(* left out.                                                               *)
(*                                                                         *)
(* aiohttp is outside the repository: session.get on a closed session      *)
(* raises RuntimeError before anything is sent, session.close() marks the  *)
(* session closed before it first suspends, and a request in flight when   *)
(* the session closes may end in any way.                                  *)
(***************************************************************************)
EXTENDS Integers, Sequences, FiniteSets, TLC

VARIABLES
    closed,         \* self.session.closed
    tpc,            \* the terminate() coroutine that closes: "idle", "closing", "done"
    terminateCalls, \* number of terminate() invocations so far
    sessionLog,     \* the info lines of terminate (line 48)
    statusReply,    \* the last reply of check_plugin_status, <<>> before the first
    calls,          \* the query_ip invocations: locals, requests, replies, log lines
    cand,           \* the argument of a direct _is_valid_ip call, as text
    verdict         \* what _is_valid_ip returned for cand: <<>> before the call

vars == <<closed, tpc, terminateCalls, sessionLog, statusReply, calls, cand, verdict>>

(* ------------------------------ bounds --------------------------------- *)

\* concurrent query_ip invocations (call slots; a finished slot is reused)
MaxCalls == 2
\* terminate() invocations in one run
MaxTerminates == 2

(* ------------------------- program constants --------------------------- *)

\* len(self.api_urls), lines 19-22
ApiCount == 2
\* aiohttp.ClientTimeout(total=10, ...), line 25
TimeoutTotal == 10

(* ------------------------------- text ---------------------------------- *)

None == <<>>
Some(x) == <<x>>

Digits == {"0", "1", "2", "3", "4", "5", "6", "7", "8", "9"}
\* str.split() with no argument splits on runs of whitespace
Whitespace == {" ", "\n", "\t"}

\* the unknown sentinel, the default of every dict.get of lines 62-65, 80-83
Unknown == "unknown"

At(s, i) == IF i >= 1 /\ i <= Len(s) THEN s[i] ELSE ""

RECURSIVE Strip(_)
\* str.strip(): leading and trailing whitespace removed
Strip(s) ==
    IF s = <<>> THEN s
    ELSE IF Head(s) \in Whitespace THEN Strip(Tail(s))
    ELSE IF s[Len(s)] \in Whitespace THEN Strip(SubSeq(s, 1, Len(s) - 1))
    ELSE s

RECURSIVE SplitFrom(_, _, _)
\* the words of s from position i on, cur the word being read
SplitFrom(s, i, cur) ==
    IF i > Len(s) THEN (IF cur = <<>> THEN <<>> ELSE <<cur>>)
    ELSE IF s[i] \in Whitespace
         THEN (IF cur = <<>> THEN <<>> ELSE <<cur>>) \o SplitFrom(s, i + 1, <<>>)
         ELSE SplitFrom(s, i + 1, Append(cur, s[i]))

\* str.split()
Split(s) == SplitFrom(s, 1, <<>>)

(* --------------------------- _is_valid_ip ------------------------------ *)

\* the lengths of the prefixes of s[i..] that match one octet of the pattern,
\* 25[0-5] | 2[0-4][0-9] | [01]?[0-9][0-9]?
OctetLens(s, i) ==
    LET a == At(s, i)
        b == At(s, i + 1)
        c == At(s, i + 2)
    IN    (IF a = "2" /\ b = "5" /\ c \in {"0", "1", "2", "3", "4", "5"} THEN {3} ELSE {})
     \cup (IF a = "2" /\ b \in {"0", "1", "2", "3", "4"} /\ c \in Digits THEN {3} ELSE {})
     \cup (IF a \in {"0", "1"} /\ b \in Digits
           THEN {2} \cup (IF c \in Digits THEN {3} ELSE {})
           ELSE {})
     \cup (IF a \in Digits
           THEN {1} \cup (IF b \in Digits THEN {2} ELSE {})
           ELSE {})

RECURSIVE GroupEnds(_, _, _)
\* the positions the regex engine can stand at after n groups (?:octet\.)
\* read from position i on (every way of backtracking)
GroupEnds(s, i, n) ==
    IF n = 0 THEN {i}
    ELSE UNION { IF At(s, i + l) = "." THEN GroupEnds(s, i + l + 1, n - 1) ELSE {}
                 : l \in OctetLens(s, i) }

\* "$" without re.MULTILINE: the end of the text, or just before a newline
\* that ends the text
DollarAt(s, p) == p = Len(s) + 1 \/ (p = Len(s) /\ s[p] = "\n")

\* _is_valid_ip: bool(re.match(pattern, ip))
IsValidIp(s) ==
    \E p \in GroupEnds(s, 1, 3) : \E l \in OctetLens(s, p) : DollarAt(s, p + l)

(* ------------------------------ float() -------------------------------- *)

\* a Python number: m / 10^e, an int (the literal 0 of lines 84-85) or a float
Num(t, m, e) == [type |-> t, m |-> m, e |-> e]

DigitVal == [d \in Digits |->
    CASE d = "0" -> 0 [] d = "1" -> 1 [] d = "2" -> 2 [] d = "3" -> 3 [] d = "4" -> 4
      [] d = "5" -> 5 [] d = "6" -> 6 [] d = "7" -> 7 [] d = "8" -> 8 [] d = "9" -> 9]

RECURSIVE DigitsValue(_)
DigitsValue(s) ==
    IF s = <<>> THEN 0 ELSE 10 * DigitsValue(SubSeq(s, 1, Len(s) - 1)) + DigitVal[s[Len(s)]]

RECURSIVE DropTrailingZeros(_)
DropTrailingZeros(s) ==
    IF s # <<>> /\ s[Len(s)] = "0" THEN DropTrailingZeros(SubSeq(s, 1, Len(s) - 1)) ELSE s

AllDigits(s) == \A i \in 1..Len(s) : s[i] \in Digits

\* float(text) for a text of an optional sign, digits and at most one point:
\* Some(number), or None where float raises ValueError (no digit, any other
\* character)
FloatOfText(s) ==
    LET neg  == At(s, 1) = "-"
        body == IF At(s, 1) \in {"+", "-"} THEN Tail(s) ELSE s
        dots == {i \in 1..Len(body) : body[i] = "."}
        dot  == IF dots = {} THEN Len(body) + 1 ELSE CHOOSE i \in dots : \A j \in dots : i <= j
        int  == SubSeq(body, 1, dot - 1)
        frac == DropTrailingZeros(SubSeq(body, dot + 1, Len(body)))
        whole == SubSeq(body, dot + 1, Len(body))
        m    == DigitsValue(int \o frac)
    IN  IF AllDigits(int) /\ AllDigits(whole) /\ Len(int) + Len(whole) >= 1
        THEN Some(Num("float", IF neg THEN 0 - m ELSE m, Len(frac)))
        ELSE None

(* ------------------------------- JSON ---------------------------------- *)

\* dict.get(key, default) on a JSON object (a record: DOMAIN is its keys)
Get(obj, key, default) == IF key \in DOMAIN obj THEN obj[key] ELSE default

Has(obj, key) == key \in DOMAIN obj

(* ----------------------- what a request can meet ----------------------- *)

\* session.get / response.json() raising
Raised(e) == [kind |-> "exc", exc |-> e, status |-> 0, body |-> None]
\* an HTTP response: its status and its body, Some(JSON object) or None for
\* a body that is not JSON
Http(st, body) == [kind |-> "http", exc |-> "", status |-> st, body |-> body]

Ip8888 == <<"8", ".", "8", ".", "8", ".", "8">>
Ip1234 == <<"1", ".", "2", ".", "3", ".", "4">>

DataFull ==
    [country |-> "US", province |-> "CA", city |-> "Mountain View", isp |-> "Google",
     latitude |-> <<"3", "7", ".", "4">>, longitude |-> <<"-", "1", "2", "2", ".", "1">>]
DataBadLatitude ==
    [country |-> "US", province |-> "CA", city |-> "Mountain View", isp |-> "Google",
     latitude |-> <<"n", "/", "a">>, longitude |-> <<"-", "1", "2", "2", ".", "1">>]

\* the answers of api.52vmy.cn: {code, data: {country, province, city, isp,
\* latitude, longitude}}, any field absent
ResponsesA ==
    { Raised("TimeoutError"), Raised("ClientError"),
      Http(500, None), Http(200, None),
      Http(200, Some([code |-> 500])),
      Http(200, Some([code |-> 200])),
      Http(200, Some([code |-> 200, data |-> DataFull])),
      Http(200, Some([code |-> 200, data |-> DataBadLatitude])) }

InfoFull == [country |-> "CN", prov |-> "Beijing", city |-> "Haidian", isp |-> "ChinaNet"]

\* the answers of api.vvhan.com: {success, ip, info: {country, prov, city, isp}}
ResponsesB ==
    { Raised("TimeoutError"),
      Http(500, None),
      Http(200, Some([success |-> FALSE])),
      Http(200, Some([success |-> TRUE, info |-> [prov |-> "Beijing"]])),
      Http(200, Some([success |-> TRUE, ip |-> Ip1234, info |-> InfoFull])) }

(* --------------------------- _query_ip_info ---------------------------- *)

\* {} as a JSON object, the default of result.get("data", {}) and
\* data.get("info", {})
EmptyObject == [k \in {} |-> Unknown]

\* what the code of one provider comes to: return a dict, raise into the
\* except clauses of lines 89-94, or go on to the next statement
Return(info) == [kind |-> "return", info |-> Some(info), exc |-> ""]
Raise(e) == [kind |-> "raise", info |-> None, exc |-> e]
GoOn == [kind |-> "next", info |-> None, exc |-> ""]

\* as SuccessA with the code compared to the text "200", which no number equals
SuccessATextCode(result) == Has(result, "code") /\ FALSE

\* result.get("code") == 200, line 58
SuccessA(result) == Has(result, "code") /\ result.code = 200

\* float(data.get(key, 0)), lines 66-67: Some(number), None for ValueError
Coordinate(data, key) ==
    IF Has(data, key) THEN FloatOfText(data[key]) ELSE Some(Num("float", 0, 0))

\* as NormalizeA with the region read from the key "region"
NormalizeARegionKey(ip, data) ==
    [ip |-> ip,
     country |-> Get(data, "country", Unknown),
     region |-> Get(data, "region", Unknown),
     city |-> Get(data, "city", Unknown),
     isp |-> Get(data, "isp", Unknown),
     lat |-> Coordinate(data, "latitude")[1],
     lon |-> Coordinate(data, "longitude")[1],
     timezone |-> Unknown]

\* the dict of lines 60-69
NormalizeA(ip, data) ==
    [ip |-> ip,
     country |-> Get(data, "country", Unknown),
     region |-> Get(data, "province", Unknown),
     city |-> Get(data, "city", Unknown),
     isp |-> Get(data, "isp", Unknown),
     lat |-> Coordinate(data, "latitude")[1],
     lon |-> Coordinate(data, "longitude")[1],
     timezone |-> Unknown]

\* lines 55-69 once session.get has met resp
ProviderA(ip, resp) ==
    IF resp.kind = "exc" THEN Raise(resp.exc)
    ELSE IF resp.status # 200 THEN GoOn
    ELSE IF resp.body = None THEN Raise("JSONDecodeError")
    ELSE LET result == resp.body[1]
             data == Get(result, "data", EmptyObject)
         IN  IF ~SuccessA(result) THEN GoOn
             ELSE IF Coordinate(data, "latitude") = None
                     \/ Coordinate(data, "longitude") = None
                  THEN Raise("ValueError")
                  ELSE Return(NormalizeA(ip, data))

\* data.get("success"), line 76
SuccessB(data) == Has(data, "success") /\ data.success

\* as NormalizeB with the ip always the input IP
NormalizeBInputIp(ip, data) ==
    LET info == Get(data, "info", EmptyObject)
    IN  [ip |-> ip,
         country |-> Get(info, "country", Unknown),
         region |-> Get(info, "prov", Unknown),
         city |-> Get(info, "city", Unknown),
         isp |-> Get(info, "isp", Unknown),
         lat |-> Num("int", 0, 0),
         lon |-> Num("int", 0, 0),
         timezone |-> Unknown]

\* the dict of lines 78-87
NormalizeB(ip, data) ==
    LET info == Get(data, "info", EmptyObject)
    IN  [ip |-> Get(data, "ip", ip),
         country |-> Get(info, "country", Unknown),
         region |-> Get(info, "prov", Unknown),
         city |-> Get(info, "city", Unknown),
         isp |-> Get(info, "isp", Unknown),
         lat |-> Num("int", 0, 0),
         lon |-> Num("int", 0, 0),
         timezone |-> Unknown]

\* lines 73-87 once session.get has met resp
ProviderB(ip, resp) ==
    IF resp.kind = "exc" THEN Raise(resp.exc)
    ELSE IF resp.status # 200 THEN GoOn
    ELSE IF resp.body = None THEN Raise("JSONDecodeError")
    ELSE LET data == resp.body[1]
         IN  IF SuccessB(data) THEN Return(NormalizeB(ip, data)) ELSE GoOn

\* as ExceptClause without the last clause, except Exception
ExceptClauseNarrow(e) ==
    IF e = "TimeoutError" THEN "timeout"
    ELSE IF e = "ClientError" THEN "network_error"
    ELSE "uncaught"

\* the except clause of lines 89-94 that takes exception e, by the text it
\* logs: "timeout" 查询IP {ip} 超时, "network_error" 网络错误查询IP {ip}: {e},
\* "lookup_failed" 查询IP信息失败 {ip}: {type}: {e}.  The last clause is
\* except Exception: it takes every exception a request raises here.
ExceptClause(e) ==
    IF e = "TimeoutError" THEN "timeout"
    ELSE IF e = "ClientError" THEN "network_error"
    ELSE "lookup_failed"

\* logger.error of lines 90, 92, 94 (and 146 for "query_exception",
\* 查询IP异常: {e}, which names no IP)
ErrorLog(msg, ip, e) == [level |-> "error", msg |-> msg, ip |-> ip, exc |-> e]

\* the request URLs of lines 54 and 72
Url(provider, ip) ==
    [provider |-> provider,
     host |-> IF provider = "A" THEN "api.52vmy.cn" ELSE "api.vvhan.com",
     ip |-> ip]

(* ------------------------------ query_ip ------------------------------- *)

\* event.plain_result(...): "missing_ip" ❌ 请提供IP地址，格式：ip 查询 8.8.8.8,
\* "invalid_ip" ❌ 请输入有效的IP地址, "progress" 🔍 正在查询IP {ip} 的信息...,
\* "result" the seven lines of 132-140, "query_failed" ❌ 查询失败，请稍后重试,
\* "query_error" ❌ 查询时出现错误
Reply(kind, ip, info) == [kind |-> kind, ip |-> ip, info |-> info]

\* lines 131-143
LookupReply(info) ==
    IF info # None THEN Reply("result", None, info) ELSE Reply("query_failed", None, None)

\* event.message_str of the query command
Messages ==
    { <<"i", "p", " ", "cha", "xun">>,
      <<"i", "p", " ", "cha", "xun", " ", "n", "o", "t", "-", "a", "n", "-", "i", "p">>,
      <<"i", "p", " ", "cha", "xun", " ">> \o Ip8888,
      <<" ", "i", "p", " ", " ", "cha", "xun", "\t">> \o Ip8888 \o <<"\n">>,
      <<"i", "p", " ", "cha", "xun", " ">> \o Ip8888 \o <<" ", "x">> }

\* as QueryBranch without the validation of lines 123-125
QueryBranchUnchecked(parts) ==
    IF Len(parts) < 3 THEN "missing_ip" ELSE "lookup"

\* lines 115-125: which way query_ip goes for the words of the message
QueryBranch(parts) ==
    IF Len(parts) < 3 THEN "missing_ip"
    ELSE IF ~IsValidIp(parts[3]) THEN "invalid_ip"
    ELSE "lookup"

CallIds == 1..MaxCalls

IdleCall ==
    [pc |-> "idle", ip |-> None, reqs |-> <<>>, respA |-> None, respB |-> None,
     info |-> None, replies |-> <<>>, logs |-> <<>>]

\* as IpOf with the IP kept in one place shared by every call
IpOfShared(rec) == calls[1].ip

\* the parameter ip of the running _query_ip_info call: a local of the
\* coroutine, nothing of it is kept on the plugin object
IpOf(rec) == rec.ip

\* _query_ip_info returns info (line 69, 87 or 96) and query_ip replies
Returned(rec, info, logs) ==
    [rec EXCEPT !.pc = "done", !.info = info, !.logs = rec.logs \o logs,
                !.replies = Append(rec.replies, LookupReply(info))]

\* exception e leaves the try block of _query_ip_info: an except clause logs
\* it and line 96 returns None; one that no clause takes reaches the except
\* of query_ip (lines 145-147)
Raising(rec, e) ==
    IF ExceptClause(e) # "uncaught"
    THEN Returned(rec, None, <<ErrorLog(ExceptClause(e), IpOf(rec), e)>>)
    ELSE [rec EXCEPT !.pc = "done",
                     !.logs = Append(rec.logs, ErrorLog("query_exception", None, e)),
                     !.replies = Append(rec.replies, Reply("query_error", None, None))]

\* lines 115-125 on every message: the words of
\* event.message_str.strip().split(), the local ip (parts[2], None when the
\* message has fewer than three words) and the way query_ip goes
Commands ==
    { LET parts == Split(Strip(msg))
      IN  [branch |-> QueryBranch(parts),
           ip |-> IF Len(parts) >= 3 THEN parts[3] ELSE None]
      : msg \in Messages }

\* query_ip up to its first reply: the rejection, or the progress line
QueryIp(c) ==
    /\ calls[c].pc = "idle"
    /\ \E cmd \in Commands :
         LET rec == [IdleCall EXCEPT !.ip = cmd.ip]
         IN  calls' = [calls EXCEPT ![c] =
                 IF cmd.branch = "lookup"
                 THEN [rec EXCEPT !.pc = "yielded",
                                  !.replies = <<Reply("progress", cmd.ip, None)>>]
                 ELSE [rec EXCEPT !.pc = "done",
                                  !.replies = <<Reply(cmd.branch, None, None)>>]]
    /\ UNCHANGED <<closed, tpc, terminateCalls, sessionLog, statusReply, cand, verdict>>

\* line 129 to the await of line 55: a closed session raises RuntimeError
\* ("Session is closed") before anything is sent
IssueA(c) ==
    /\ calls[c].pc = "yielded"
    /\ calls' = [calls EXCEPT ![c] =
         IF closed THEN Raising(@, "RuntimeError")
         ELSE [@ EXCEPT !.pc = "awaitA", !.reqs = Append(@, Url("A", IpOf(calls[c])))]]
    /\ UNCHANGED <<closed, tpc, terminateCalls, sessionLog, statusReply, cand, verdict>>

\* the request to provider A ends (lines 55-69) and, unless the call ends
\* there, the request to provider B is issued (line 73)
ReceiveA(c) ==
    /\ calls[c].pc = "awaitA"
    /\ \E resp \in ResponsesA :
         LET rec == [calls[c] EXCEPT !.respA = Some(resp)]
             out == ProviderA(IpOf(rec), resp)
         IN  calls' = [calls EXCEPT ![c] =
                 IF out.kind = "return" THEN Returned(rec, out.info, <<>>)
                 ELSE IF out.kind = "raise" THEN Raising(rec, out.exc)
                 ELSE IF closed THEN Raising(rec, "RuntimeError")
                 ELSE [rec EXCEPT !.pc = "awaitB", !.reqs = Append(@, Url("B", IpOf(rec)))]]
    /\ UNCHANGED <<closed, tpc, terminateCalls, sessionLog, statusReply, cand, verdict>>

\* the request to provider B ends (lines 73-87, then line 96)
ReceiveB(c) ==
    /\ calls[c].pc = "awaitB"
    /\ \E resp \in ResponsesB :
         LET rec == [calls[c] EXCEPT !.respB = Some(resp)]
             out == ProviderB(IpOf(rec), resp)
         IN  calls' = [calls EXCEPT ![c] =
                 IF out.kind = "return" THEN Returned(rec, out.info, <<>>)
                 ELSE IF out.kind = "raise" THEN Raising(rec, out.exc)
                 ELSE Returned(rec, None, <<>>)]
    /\ UNCHANGED <<closed, tpc, terminateCalls, sessionLog, statusReply, cand, verdict>>

\* the generator of query_ip is exhausted; the slot takes the next command
Finish(c) ==
    /\ calls[c].pc = "done"
    /\ calls' = [calls EXCEPT ![c] = IdleCall]
    /\ UNCHANGED <<closed, tpc, terminateCalls, sessionLog, statusReply, cand, verdict>>

(* ------------------------ terminate and status ------------------------- *)

\* as Terminate without the test of line 46: every call closes and logs
TerminateUnguarded ==
    /\ terminateCalls < MaxTerminates
    /\ terminateCalls' = terminateCalls + 1
    /\ closed' = TRUE
    /\ tpc' = "closing"
    /\ UNCHANGED <<sessionLog, statusReply, calls, cand, verdict>>

\* terminate up to its await (lines 46-47): session.close() marks the
\* session closed before it first suspends; on a closed session terminate
\* returns at once
Terminate ==
    /\ terminateCalls < MaxTerminates
    /\ terminateCalls' = terminateCalls + 1
    /\ IF ~closed
       THEN closed' = TRUE /\ tpc' = "closing"
       ELSE UNCHANGED <<closed, tpc>>
    /\ UNCHANGED <<sessionLog, statusReply, calls, cand, verdict>>

\* terminate after its await: line 48, IP查询会话已关闭
TerminateLogged ==
    /\ tpc = "closing"
    /\ tpc' = "done"
    /\ sessionLog' = Append(sessionLog, [level |-> "info", msg |-> "session_closed"])
    /\ UNCHANGED <<closed, terminateCalls, statusReply, calls, cand, verdict>>

\* as SessionText with the two texts exchanged
SessionTextSwapped(isClosed) == IF isClosed THEN "active" ELSE "closed"

\* line 157: 活跃 ("active") or 已关闭 ("closed")
SessionText(isClosed) == IF ~isClosed THEN "active" ELSE "closed"

\* check_plugin_status, lines 154-161
CheckPluginStatus ==
    /\ statusReply' = Some([apis |-> ApiCount, session |-> SessionText(closed),
                            timeout |-> TimeoutTotal])
    /\ UNCHANGED <<closed, tpc, terminateCalls, sessionLog, calls, cand, verdict>>

(* --------------------------- specifications ---------------------------- *)

Init ==
    /\ closed = FALSE
    /\ tpc = "idle"
    /\ terminateCalls = 0
    /\ sessionLog = <<>>
    /\ statusReply = None
    /\ calls = [c \in CallIds |-> IdleCall]
    /\ cand = <<>>
    /\ verdict = None

Next ==
    \/ \E c \in CallIds : QueryIp(c)
    \/ \E c \in CallIds : IssueA(c)
    \/ \E c \in CallIds : ReceiveA(c)
    \/ \E c \in CallIds : ReceiveB(c)
    \/ \E c \in CallIds : Finish(c)
    \/ Terminate
    \/ TerminateLogged
    \/ CheckPluginStatus

Spec == Init /\ [][Next]_vars

(* ---------------- _is_valid_ip called on its own ----------------------- *)

\* the texts between the points of a candidate
OctetTexts ==
    { <<"0">>, <<"9", "9">>, <<"0", "0", "1">>, <<"2", "5", "5">>, <<"2", "5", "6">>,
      <<"9", "9", "9">>, <<"1", "a">>, <<>> }

OctetCounts == {3, 4, 5}

RECURSIVE JoinPoints(_)
JoinPoints(parts) ==
    IF Len(parts) = 0 THEN <<>>
    ELSE IF Len(parts) = 1 THEN parts[1]
    ELSE parts[1] \o <<".">> \o JoinPoints(Tail(parts))

\* the arguments tried: 3 to 5 texts joined by points, then nothing or a
\* line end
Candidates ==
    { JoinPoints(parts) \o tail :
        parts \in UNION { [1..n -> OctetTexts] : n \in OctetCounts },
        tail \in { <<>>, <<"\n">> } }

InitValidate ==
    /\ closed = FALSE
    /\ tpc = "idle"
    /\ terminateCalls = 0
    /\ sessionLog = <<>>
    /\ statusReply = None
    /\ calls = [c \in CallIds |-> IdleCall]
    /\ cand \in Candidates
    /\ verdict = None

\* self._is_valid_ip(cand)
Validate ==
    /\ verdict = None
    /\ verdict' = Some(IsValidIp(cand))
    /\ UNCHANGED <<closed, tpc, terminateCalls, sessionLog, statusReply, calls, cand>>

NextValidate == Validate

SpecValidate == InitValidate /\ [][NextValidate]_vars

(* ------------------------------ claims --------------------------------- *)

Done(c) == calls[c].pc = "done"

\* the call got past validation: its first reply is the progress line
Looked(c) == calls[c].replies # <<>> /\ calls[c].replies[1].kind = "progress"

Requested(c, provider) ==
    \E i \in 1..Len(calls[c].reqs) : calls[c].reqs[i].provider = provider

RECURSIVE SplitPoints(_, _)
\* the texts between the points of s, cur the text being read
SplitPoints(s, cur) ==
    IF s = <<>> THEN <<cur>>
    ELSE IF Head(s) = "." THEN <<cur>> \o SplitPoints(Tail(s), <<>>)
    ELSE SplitPoints(Tail(s), Append(cur, Head(s)))

\* the reference IPv4 predicate: exactly four texts between points, each of
\* one to three decimal digits and of value 0..255
ReferenceIPv4(s) ==
    LET parts == SplitPoints(s, <<>>)
    IN  /\ Len(parts) = 4
        /\ \A i \in 1..4 :
             /\ Len(parts[i]) \in 1..3
             /\ AllDigits(parts[i])
             /\ DigitsValue(parts[i]) <= 255

\* C7: _is_valid_ip agrees with the reference IPv4 predicate on every
\* candidate: true for four decimal octets in 0..255, false for a text with
\* a non-numeric octet, an out-of-range octet or another number of octets.
C7_ValidateAgreesWithReference ==
    verdict # None => verdict[1] = ReferenceIPv4(cand)

\* provider A's response satisfies its success predicate: HTTP 200 and a
\* JSON body whose code is 200
AnsweredSuccessA(r) ==
    /\ r.kind = "http" /\ r.status = 200 /\ r.body # None
    /\ "code" \in DOMAIN r.body[1] /\ r.body[1].code = 200

\* the data object of provider A's body, {} when the body has none
DataOfA(r) == IF "data" \in DOMAIN r.body[1] THEN r.body[1].data ELSE EmptyObject

\* float() takes the field of the data object, or the field is absent
Coercible(data, key) == key \notin DOMAIN data \/ FloatOfText(data[key]) # None

TextOr(obj, key) == IF key \in DOMAIN obj THEN obj[key] ELSE Unknown

\* the normalized result of call c is the one built from provider A's data
ResultFromA(c) ==
    LET data == DataOfA(calls[c].respA[1])
        info == calls[c].info[1]
    IN  /\ calls[c].info # None
        /\ info.ip = calls[c].ip
        /\ info.country = TextOr(data, "country")
        /\ info.region = TextOr(data, "province")
        /\ info.city = TextOr(data, "city")
        /\ info.isp = TextOr(data, "isp")
        /\ info.lat.type = "float" /\ info.lon.type = "float"
        /\ IF "latitude" \in DOMAIN data
           THEN Some(info.lat) = FloatOfText(data.latitude) ELSE info.lat.m = 0
        /\ IF "longitude" \in DOMAIN data
           THEN Some(info.lon) = FloatOfText(data.longitude) ELSE info.lon.m = 0
        /\ calls[c].replies[Len(calls[c].replies)] = Reply("result", None, calls[c].info)

\* C1 as stated: whenever provider A's response satisfies its success
\* predicate, the call returns the normalized result built from provider A's
\* data object and no request to provider B is issued in that call.
C1_SuccessAShortCircuits ==
    \A c \in CallIds :
        (calls[c].respA # None /\ AnsweredSuccessA(calls[c].respA[1]))
        => /\ ~Requested(c, "B")
           /\ Done(c)
           /\ ResultFromA(c)

\* C1 as amended: whenever provider A's response satisfies its success
\* predicate and its data is absent or an object whose latitude and
\* longitude are each absent or a text float() takes, the call returns the normalized result
\* built from provider A's data object and no request to provider B is
\* issued in that call.
C1_SuccessAShortCircuitsWhenCoercible ==
    \A c \in CallIds :
        (/\ calls[c].respA # None
         /\ AnsweredSuccessA(calls[c].respA[1])
         /\ Coercible(DataOfA(calls[c].respA[1]), "latitude")
         /\ Coercible(DataOfA(calls[c].respA[1]), "longitude"))
        => /\ ~Requested(c, "B")
           /\ Done(c)
           /\ ResultFromA(c)

C1_Witness ==
    \E c \in CallIds :
        /\ Done(c)
        /\ calls[c].respA = Some(Http(200, Some([code |-> 200, data |-> DataFull])))
        /\ calls[c].info # None
        /\ calls[c].info[1].region = "CA"
        /\ calls[c].info[1].lat = Num("float", 374, 1)
        /\ calls[c].info[1].lon = Num("float", 0 - 1221, 1)

\* the providers requested by call c, in order
ProvidersOf(c) == [i \in 1..Len(calls[c].reqs) |-> calls[c].reqs[i].provider]

\* provider A returned a non-200 HTTP status, a non-200 code field, or threw
FailedA(r) ==
    \/ r.kind = "exc"
    \/ r.kind = "http" /\ r.status # 200
    \/ r.kind = "http" /\ r.status = 200 /\ r.body = None
    \/ r.kind = "http" /\ r.status = 200 /\ r.body # None
       /\ ("code" \notin DOMAIN r.body[1] \/ r.body[1].code # 200)

\* C2: the outbound requests of a call are a prefix of [A, B] (at most two,
\* each provider at most once, A first), each carries the call's IP, and B
\* is requested only if A returned a non-200 status, a non-200 code or threw.
C2_RequestsArePrefixOfAB ==
    \A c \in CallIds :
        /\ ProvidersOf(c) \in { <<>>, <<"A">>, <<"A", "B">> }
        /\ \A i \in 1..Len(calls[c].reqs) : calls[c].reqs[i].ip = calls[c].ip
        /\ Requested(c, "B") => (calls[c].respA # None /\ FailedA(calls[c].respA[1]))

C2_Witness ==
    \E c \in CallIds :
        /\ ProvidersOf(c) = <<"A", "B">>
        /\ calls[c].respA = Some(Http(200, Some([code |-> 500])))
        /\ calls[c].pc = "awaitB"

\* provider B answered without a result: it threw, returned a non-200
\* status, or a body whose success is not true
FailedB(r) ==
    \/ r.kind = "exc"
    \/ r.kind = "http" /\ r.status # 200
    \/ r.kind = "http" /\ r.status = 200 /\ r.body = None
    \/ r.kind = "http" /\ r.status = 200 /\ r.body # None
       /\ ("success" \notin DOMAIN r.body[1] \/ ~r.body[1].success)

\* C3: a lookup that issued its request returns failure (None) only if
\* provider A yielded no result and provider B was attempted and failed too.
C3_FailureOnlyAfterBothProviders ==
    \A c \in CallIds :
        (Done(c) /\ Looked(c) /\ calls[c].reqs # <<>> /\ calls[c].info = None)
        => /\ Requested(c, "B")
           /\ calls[c].respB # None
           /\ FailedB(calls[c].respB[1])

\* the third words of the messages, and those _is_valid_ip accepts
ThirdWords == { Split(Strip(msg))[3] : msg \in { m \in Messages : Len(Split(Strip(m))) >= 3 } }
AcceptedWords == { w \in ThirdWords : IsValidIp(w) }

\* C4: a query command whose IP token is missing or fails _is_valid_ip ends
\* with the one rejection reply and no request; a request is issued only for
\* a token _is_valid_ip accepts.
C4_RejectedBeforeAnyRequest ==
    \A c \in CallIds :
        calls[c].pc # "idle" =>
            /\ (calls[c].ip = None) =>
                  /\ Done(c) /\ calls[c].reqs = <<>> /\ calls[c].respA = None
                  /\ calls[c].replies = <<Reply("missing_ip", None, None)>>
            /\ (calls[c].ip # None /\ calls[c].ip \notin AcceptedWords) =>
                  /\ Done(c) /\ calls[c].reqs = <<>> /\ calls[c].respA = None
                  /\ calls[c].replies = <<Reply("invalid_ip", None, None)>>
            /\ (calls[c].reqs # <<>> \/ Looked(c)) =>
                  (calls[c].ip # None /\ calls[c].ip \in AcceptedWords)

C4_Witness ==
    \E c \in CallIds :
        /\ Done(c)
        /\ calls[c].ip = <<"n", "o", "t", "-", "a", "n", "-", "i", "p">>
        /\ calls[c].reqs = <<>>
        /\ calls[c].replies = <<Reply("invalid_ip", None, None)>>

\* C5: for a validated IP, whenever the lookup obtains no provider result
\* (timeout, network error, providers exhausted, any other exception), the
\* final reply of the query command is exactly the generic failure line.
C5_FailuresCollapseToGenericReply ==
    \A c \in CallIds :
        (Done(c) /\ Looked(c) /\ calls[c].info = None)
        => /\ Len(calls[c].replies) = 2
           /\ calls[c].replies[2] = Reply("query_failed", None, None)

C5_Witness ==
    \E c \in CallIds :
        /\ Done(c)
        /\ calls[c].respA = Some(Http(200, None))
        /\ calls[c].info = None
        /\ calls[c].replies[Len(calls[c].replies)].kind = "query_failed"

\* C6: every lookup that ends in failure has emitted at least one error log
\* line that contains the queried IP.
C6_EveryFailureLoggedWithIp ==
    \A c \in CallIds :
        (Done(c) /\ Looked(c) /\ calls[c].info = None)
        => \E i \in 1..Len(calls[c].logs) :
              calls[c].logs[i].level = "error" /\ calls[c].logs[i].ip = calls[c].ip

\* provider B's response satisfies its success predicate: HTTP 200 and a
\* JSON body whose success is true
AnsweredSuccessB(r) ==
    /\ r.kind = "http" /\ r.status = 200 /\ r.body # None
    /\ "success" \in DOMAIN r.body[1] /\ r.body[1].success

InfoOfB(r) == IF "info" \in DOMAIN r.body[1] THEN r.body[1].info ELSE EmptyObject

\* C8: when provider A responds without satisfying its success predicate
\* and provider B responds with HTTP 200 and success true, the result has
\* B's echoed ip if present and the input IP otherwise, country, region,
\* city and isp from info.country, info.prov, info.city and info.isp (the
\* unknown sentinel when absent), latitude and longitude 0 and timezone
\* unknown; and timezone is unknown in every result of either provider.
C8_ResultFromB ==
    \A c \in CallIds :
        /\ (/\ Done(c)
            /\ calls[c].respA # None /\ calls[c].respA[1].kind = "http"
            /\ ~AnsweredSuccessA(calls[c].respA[1])
            /\ calls[c].respB # None /\ AnsweredSuccessB(calls[c].respB[1]))
           => /\ calls[c].info # None
              /\ LET body == calls[c].respB[1].body[1]
                     data == InfoOfB(calls[c].respB[1])
                     info == calls[c].info[1]
                 IN  /\ info.ip = (IF "ip" \in DOMAIN body THEN body.ip ELSE calls[c].ip)
                     /\ info.country = TextOr(data, "country")
                     /\ info.region = TextOr(data, "prov")
                     /\ info.city = TextOr(data, "city")
                     /\ info.isp = TextOr(data, "isp")
                     /\ info.lat.m = 0 /\ info.lon.m = 0
                     /\ info.timezone = Unknown
        /\ calls[c].info # None => calls[c].info[1].timezone = Unknown

C8_Witness ==
    \E c \in CallIds :
        /\ Done(c)
        /\ calls[c].respA = Some(Http(200, Some([code |-> 500])))
        /\ calls[c].respB =
              Some(Http(200, Some([success |-> TRUE, ip |-> Ip1234, info |-> InfoFull])))
        /\ calls[c].info # None
        /\ calls[c].info[1].ip = Ip1234
        /\ calls[c].info[1].region = "Beijing"

\* what provider B alone makes of its answer rb (None: the request could
\* not be issued)
AloneB(ip, rb) ==
    IF rb = None \/ ~AnsweredSuccessB(rb[1]) THEN None
    ELSE LET body == rb[1].body[1]
             data == InfoOfB(rb[1])
         IN  Some([ip |-> IF "ip" \in DOMAIN body THEN body.ip ELSE ip,
                   country |-> TextOr(data, "country"), region |-> TextOr(data, "prov"),
                   city |-> TextOr(data, "city"), isp |-> TextOr(data, "isp"),
                   lat |-> Num("int", 0, 0), lon |-> Num("int", 0, 0),
                   timezone |-> Unknown])

FloatOr0(data, key) ==
    IF key \in DOMAIN data THEN FloatOfText(data[key])[1] ELSE Num("float", 0, 0)

\* the result of a lookup of ip run alone that meets the answers ra and rb
AloneInfo(ip, ra, rb) ==
    IF ra = None \/ ra[1].kind = "exc" THEN None
    ELSE IF ra[1].status # 200 THEN AloneB(ip, rb)
    ELSE IF ra[1].body = None THEN None
    ELSE IF ~AnsweredSuccessA(ra[1]) THEN AloneB(ip, rb)
    ELSE LET data == DataOfA(ra[1])
         IN  IF ~(Coercible(data, "latitude") /\ Coercible(data, "longitude")) THEN None
             ELSE Some([ip |-> ip,
                        country |-> TextOr(data, "country"),
                        region |-> TextOr(data, "province"),
                        city |-> TextOr(data, "city"), isp |-> TextOr(data, "isp"),
                        lat |-> FloatOr0(data, "latitude"),
                        lon |-> FloatOr0(data, "longitude"),
                        timezone |-> Unknown])

AloneReplies(ip, info) ==
    << Reply("progress", ip, None),
       IF info = None THEN Reply("query_failed", None, None) ELSE Reply("result", None, info) >>

\* C9: under every interleaving of the calls and after any earlier calls,
\* a finished lookup has the result and replies a lookup of the same IP run
\* alone has on the same answers, and two lookups of the same IP that met
\* the same answers end with identical results, replies and log lines.
C9_CallsIndependent ==
    \A c \in CallIds :
        (Done(c) /\ Looked(c)) =>
            /\ calls[c].info = AloneInfo(calls[c].ip, calls[c].respA, calls[c].respB)
            /\ calls[c].replies = AloneReplies(calls[c].ip, calls[c].info)
            /\ \A i \in 1..Len(calls[c].logs) : calls[c].logs[i].ip = calls[c].ip
            /\ \A d \in CallIds :
                 (/\ Done(d) /\ Looked(d) /\ calls[d].ip = calls[c].ip
                  /\ calls[d].respA = calls[c].respA /\ calls[d].respB = calls[c].respB)
                 => /\ calls[d].info = calls[c].info
                    /\ calls[d].replies = calls[c].replies
                    /\ calls[d].logs = calls[c].logs

C9_Witness ==
    \E c, d \in CallIds :
        /\ c # d /\ Done(c) /\ Done(d) /\ Looked(c) /\ Looked(d)
        /\ calls[c].respA = Some(Raised("TimeoutError")) /\ calls[c].info = None
        /\ calls[d].respA = Some(Http(500, None))
        /\ calls[d].respB # None /\ calls[d].info # None

C10_State ==
    /\ closed <=> terminateCalls >= 1
    /\ closed <=> tpc # "idle"
    /\ Len(sessionLog) = (IF tpc = "done" THEN 1 ELSE 0)
    /\ (statusReply # None /\ statusReply[1].session = "closed") => closed

C10_Step ==
    /\ closed => closed'
    /\ (closed /\ terminateCalls' # terminateCalls)
          => UNCHANGED <<closed, tpc, sessionLog, statusReply, calls>>
    /\ statusReply' # statusReply
          => /\ statusReply' # None
             /\ statusReply'[1].session = (IF closed THEN "closed" ELSE "active")
             /\ closed' = closed
    /\ \A c \in CallIds :
          closed =>
             /\ Len(calls'[c].reqs) <= Len(calls[c].reqs)
             /\ calls'[c].respA # calls[c].respA
                   => (calls[c].pc = "awaitA" \/ calls'[c].respA = None)
             /\ (calls[c].pc = "yielded" /\ calls'[c] # calls[c])
                   => /\ calls'[c].pc = "done"
                      /\ calls'[c].reqs = <<>>
                      /\ calls'[c].respA = None /\ calls'[c].respB = None
                      /\ calls'[c].info = None
                      /\ calls'[c].replies =
                            Append(calls[c].replies, Reply("query_failed", None, None))

\* C10: the session is open from construction until terminate; terminate
\* closes it once and logs once, a later terminate changes and logs nothing;
\* a closed session stays closed; while it is closed no request is issued,
\* a query command for a valid IP ends with the generic failure reply, and
\* the status command reports closed (active while the session is open).
C10_SessionLifecycle == []C10_State /\ [][C10_Step]_vars

C10_Witness ==
    /\ closed /\ tpc = "done" /\ terminateCalls = 2 /\ Len(sessionLog) = 1
    /\ statusReply # None /\ statusReply[1].session = "closed"
    /\ \E c \in CallIds :
          /\ Done(c) /\ Looked(c) /\ calls[c].reqs = <<>>
          /\ calls[c].replies[2] = Reply("query_failed", None, None)
          /\ calls[c].logs # <<>> /\ calls[c].logs[1].exc = "RuntimeError"

====
